---- MODULE Spec2Model ----
(***************************************************************************)
(* Model of nemo/collections/nlp/modules/common/text_generation_strategy.py *)
(* One strategy object: its end-of-generation cache, the attention mask and *)
(* position ids stored by init_batch, and the model's active tokenizer.     *)
(* Every method is one action on the arguments the generation loop holds;   *)
(* `ret` records the last call on them and what it returned.                *)
(***************************************************************************)
EXTENDS Integers, Sequences, FiniteSets, TLC

VARIABLES
    tokenizer,       \* self.model.tokenizer: the identity of the active tokenizer object
    cache,           \* self._end_of_generation_cache
    probes,          \* per end string: discovery probes run since the tokenizer was last replaced
    arg_tokens,      \* the generation loop's token grid, one row per sequence
    arg_prev,        \* the generation loop's previous token of every sequence
    arg_eod_id,      \* the end-of-document id the loop passes
    arg_end_strings, \* the end strings the loop passes
    arg_step,        \* the loop's step counter
    arg_context_length,  \* the loop's context_length: the column of the next token
    arg_compute,     \* the compute_attention_mask flag the loop passes
    variant,         \* the strategy class of the object
    cfg,             \* self.model.cfg
    attention_mask,  \* self.attention_mask
    position_ids,    \* self.position_ids
    neighbor_attention_mask,  \* self.neighbor_attention_mask (retrieval variant)
    neighbor_position_ids,    \* self.neighbor_position_ids (retrieval variant)
    training,        \* self.model.training
    pseudo_token_ids_start,   \* self.model.pseudo_token_ids_start (prompt-tuned model)
    frozen_cfg,      \* self.model.frozen_model.cfg (prompt-tuned model)
    arg_new_tokens,  \* the generation loop's freshly sampled token of every sequence
    arg_call,        \* the arguments a caller holds for a call outside the generation loop
    ret              \* the last call on the current arguments and what it returned

\* the arguments of end_of_generation_condition besides tokens
eogArgs == <<arg_prev, arg_eod_id, arg_end_strings>>

\* the arguments of init_batch and prepare_batch_at_step besides tokens
batchArgs == <<arg_step, arg_context_length, arg_compute>>

\* what init_batch stores on the strategy object
batchFields == <<attention_mask, position_ids, neighbor_attention_mask,
                 neighbor_position_ids>>

\* the model the strategy was constructed on
modelFields == <<variant, cfg, training, pseudo_token_ids_start, frozen_cfg>>

\* the arguments of post_process besides tokens and context_length, and those of the
\* calls made outside the generation loop
callArgs == <<arg_new_tokens, arg_call>>

vars == <<tokenizer, cache, probes, arg_tokens, eogArgs, batchArgs, callArgs,
          modelFields, batchFields, ret>>

(***************************************************************************)
(* Bounds                                                                  *)
(***************************************************************************)
\* longest end_strings list passed to end_of_generation_condition
MaxEndStrings == 2
\* largest step counter passed to prepare_batch_at_step
MaxStep == 2
\* rows of every token grid
BatchIdx == 1..2
\* most neighbors passed to tokenize_neighbors_batch
MaxNeighbors == 3
\* largest retro_gpt_retrieved_length
MaxRetrievedLength == 2
\* most prompts passed to tokenize_batch
MaxPrompts == 2
\* largest number of tokens to generate passed to tokenize_batch
MaxGenerate == 2
\* largest encoder_seq_length of a model configuration
MaxSeqLength == 3

(***************************************************************************)
(* Strings                                                                 *)
(***************************************************************************)
END_OF_SEQ == "<|endoftext|>"

PROBE_PREFIX == "<extra_id_1>"

EndsWith(text, s) ==
    /\ Len(s) <= Len(text)
    /\ SubSeq(text, Len(text) - Len(s) + 1, Len(text)) = s

StartsWith(text, s) ==
    /\ Len(s) <= Len(text)
    /\ SubSeq(text, 1, Len(s)) = s

(***************************************************************************)
(* The tokenizer collaborator: text_to_ids, ids_to_text, unk_id.           *)
(* Two tokenizer objects.  tokA is a BPE vocabulary with special tokens;   *)
(* tokB is a SentencePiece-like one that prefixes every encoding with a    *)
(* token rendering as the empty string and that merges "<extra_id_1>D".    *)
(* A token id is the index in the vocabulary minus one.                    *)
(***************************************************************************)
Tokenizers == {"tokA", "tokB"}

VocabA == <<"<|endoftext|>", "<extra_id_1>", "Done", "ST", "OP", "!", "?">>

VocabB == <<"<|endoftext|>", "<extra_id_1>", "STOP", "<extra_id_1>D", "one", "", "?">>

Vocab(t) == IF t = "tokA" THEN VocabA ELSE VocabB

unk_id == 6

dummy_prefix_id == 5

\* greedy longest-match encoding; a character no piece starts with becomes unk_id
RECURSIVE Encode(_, _)
Encode(t, text) ==
    IF Len(text) = 0 THEN <<>>
    ELSE LET cands == {i \in 1..Len(Vocab(t)) :
                          Len(Vocab(t)[i]) > 0 /\ StartsWith(text, Vocab(t)[i])}
         IN  IF cands = {}
             THEN <<unk_id>> \o Encode(t, SubSeq(text, 2, Len(text)))
             ELSE LET best == CHOOSE i \in cands :
                                  \A j \in cands : Len(Vocab(t)[j]) <= Len(Vocab(t)[i])
                  IN  <<best - 1>>
                          \o Encode(t, SubSeq(text, Len(Vocab(t)[best]) + 1, Len(text)))

text_to_ids(t, text) ==
    IF t = "tokB" THEN <<dummy_prefix_id>> \o Encode(t, text) ELSE Encode(t, text)

RECURSIVE ids_to_text(_, _)
ids_to_text(t, ids) ==
    IF ids = <<>> THEN ""
    ELSE Vocab(t)[Head(ids) + 1] \o ids_to_text(t, Tail(ids))

(***************************************************************************)
(* End-of-generation cache and resolver                                    *)
(***************************************************************************)
NoCache == [tokenizer |-> "None", end_string_to_token |-> <<>>, end_strings_to_check |-> {}]

NewCache(tok, eod_id) ==
    [tokenizer |-> tok,
     end_string_to_token |-> (END_OF_SEQ :> eod_id),
     end_strings_to_check |-> {}]

\* line 208: the cache must be (re)built
CacheAlwaysStale(c, tok) == TRUE
CacheOnlyWhenNone(c, tok) == c = NoCache
CacheIsStale(c, tok) == c = NoCache \/ c.tokenizer # tok

\* line 217
NoInitialEndTokens(eod_id) == {}
InitialEndTokens(eod_id) == {eod_id}

\* line 237: the probe found one extra trailing token after the prefix's own ids
OneLongerOnly(ids_ref, ids_with_end_string) ==
    Len(ids_with_end_string) = Len(ids_ref) + 1
IsSingleToken(ids_ref, ids_with_end_string) ==
    /\ Len(ids_with_end_string) = Len(ids_ref) + 1
    /\ SubSeq(ids_with_end_string, 1, Len(ids_with_end_string) - 1) = ids_ref

\* lines 235-248: an end string that is not in the cache yet
ForgetsLine240(tok, end_string, acc) ==
    LET ids_ref == text_to_ids(tok, PROBE_PREFIX)
        ids_with_end_string == text_to_ids(tok, PROBE_PREFIX \o end_string)
        last == ids_with_end_string[Len(ids_with_end_string)]
    IN  IF IsSingleToken(ids_ref, ids_with_end_string)
        THEN [acc EXCEPT !.cache.end_string_to_token = (end_string :> last) @@ @,
                         !.probed = Append(@, end_string)]
        ELSE [acc EXCEPT !.cache.end_strings_to_check = @ \cup {end_string},
                         !.end_strings_to_check = Append(@, end_string),
                         !.probed = Append(@, end_string)]
NoMemoOfStringCheck(tok, end_string, acc) ==
    LET ids_ref == text_to_ids(tok, PROBE_PREFIX)
        ids_with_end_string == text_to_ids(tok, PROBE_PREFIX \o end_string)
        last == ids_with_end_string[Len(ids_with_end_string)]
    IN  IF IsSingleToken(ids_ref, ids_with_end_string)
        THEN [acc EXCEPT !.cache.end_string_to_token = (end_string :> last) @@ @,
                         !.end_tokens = @ \cup {last},
                         !.probed = Append(@, end_string)]
        ELSE [acc EXCEPT !.end_strings_to_check = Append(@, end_string),
                         !.probed = Append(@, end_string)]
Discover(tok, end_string, acc) ==
    LET ids_ref == text_to_ids(tok, PROBE_PREFIX)
        ids_with_end_string == text_to_ids(tok, PROBE_PREFIX \o end_string)
        last == ids_with_end_string[Len(ids_with_end_string)]
    IN  IF IsSingleToken(ids_ref, ids_with_end_string)
        THEN [acc EXCEPT !.cache.end_string_to_token = (end_string :> last) @@ @,
                         !.end_tokens = @ \cup {last},
                         !.probed = Append(@, end_string)]
        ELSE [acc EXCEPT !.cache.end_strings_to_check = @ \cup {end_string},
                         !.end_strings_to_check = Append(@, end_string),
                         !.probed = Append(@, end_string)]

\* lines 220-248: the loop over end_strings, from index i on
RECURSIVE ResolveFrom(_, _, _, _)
ResolveFrom(tok, end_strings, i, acc) ==
    IF i > Len(end_strings) THEN acc
    ELSE LET end_string == end_strings[i]
             end_string_to_token == acc.cache.end_string_to_token
         IN  IF end_string \in DOMAIN end_string_to_token
             THEN ResolveFrom(tok, end_strings, i + 1,
                      [acc EXCEPT !.end_tokens = @ \cup {end_string_to_token[end_string]}])
             ELSE IF end_string \in acc.cache.end_strings_to_check
             THEN ResolveFrom(tok, end_strings, i + 1,
                      [acc EXCEPT !.end_strings_to_check = Append(@, end_string)])
             ELSE ResolveFrom(tok, end_strings, i + 1, Discover(tok, end_string, acc))

\* _get_end_of_generation_tokens_and_strings: the new cache, the returned pair and,
\* as instrumentation, the end strings the discovery probes were run for
GetEndOfGenerationTokensAndStrings(c, tok, eod_id, end_strings) ==
    ResolveFrom(tok, end_strings, 1,
        [cache |-> IF CacheIsStale(c, tok) THEN NewCache(tok, eod_id) ELSE c,
         end_tokens |-> InitialEndTokens(eod_id),
         end_strings_to_check |-> <<>>,
         probed |-> <<>>])

\* line 161
FastPathOnlyWithoutEndStrings(end_strings) == end_strings = <<>>
FastPath(end_strings) ==
    \/ Len(end_strings) = 1 /\ end_strings[1] = END_OF_SEQ
    \/ end_strings = <<>>

\* line 163
FastResultAlwaysStop(prev, eod_id) == [i \in DOMAIN prev |-> TRUE]
FastResult(prev, eod_id) == [i \in DOMAIN prev |-> prev[i] = eod_id]

\* line 180
TextEnds(tok, token_seq, end_strings_to_check) ==
    \E k \in 1..Len(end_strings_to_check) :
        EndsWith(ids_to_text(tok, token_seq), end_strings_to_check[k])

\* lines 168-182
GeneralResultTokensOnly(tok, tokens, prev, end_tokens, end_strings_to_check) ==
    [i \in DOMAIN prev |-> prev[i] \in end_tokens]
GeneralResultOverwrites(tok, tokens, prev, end_tokens, end_strings_to_check) ==
    [i \in DOMAIN prev |->
        IF end_strings_to_check # <<>> /\ i \in DOMAIN tokens
        THEN TextEnds(tok, tokens[i], end_strings_to_check)
        ELSE prev[i] \in end_tokens]
GeneralResult(tok, tokens, prev, end_tokens, end_strings_to_check) ==
    [i \in DOMAIN prev |->
        \/ prev[i] \in end_tokens
        \/ /\ end_strings_to_check # <<>>
           /\ i \in DOMAIN tokens
           /\ TextEnds(tok, tokens[i], end_strings_to_check)]

(***************************************************************************)
(* Tensors.  A grid [batch, width] is a sequence of rows; an attribute or   *)
(* argument that may be None, or not set yet, is a tagged record.           *)
(***************************************************************************)
Unset == [tag |-> "unset"]

NoneTensor == [tag |-> "None"]

Tensor(v) == [tag |-> "tensor", v |-> v]

IsTensor(x) == x.tag = "tensor"

\* an optional integer attribute: None, or a number
NoneValue == [tag |-> "None"]

Number(v) == [tag |-> "int", v |-> v]

Width(grid) == Len(grid[1])

\* grid[:, :n]
SliceColumns(grid, n) ==
    [b \in DOMAIN grid |-> SubSeq(grid[b], 1, IF n < Width(grid) THEN n ELSE Width(grid))]

\* grid[:, idx] for a 0-based idx in [0, width)
Column(grid, idx) == [b \in DOMAIN grid |-> grid[b][idx + 1]]

\* vec.view(rows, -1)
View(vec, rows) ==
    LET w == Len(vec) \div rows
    IN  [r \in 1..rows |-> [c \in 1..w |-> vec[(r - 1) * w + c]]]

\* torch.concat([t for _ in range(n)]): n copies of t along the batch dimension
ConcatCopies(t, n) == [k \in 1..(n * Len(t)) |-> t[((k - 1) % Len(t)) + 1]]

\* [x] * n
Times(x, n) == [k \in 1..n |-> x]

(***************************************************************************)
(* get_ltor_masks_and_position_ids (megatron/utils.py): position ids of     *)
(* each token, restarted after every end-of-document token when             *)
(* reset_position_ids; a lower-triangular attention mask (TRUE = masked),   *)
(* one for the whole batch, or one per row cut at document boundaries when *)
(* reset_attention_mask; None when compute_attention_mask is false.         *)
(***************************************************************************)
eos_id == 0

\* the column (1-based) of the last end-of-document token before column j, or 0
DocStart(row, eod_token, j) ==
    LET E == {k \in 1..(j - 1) : row[k] = eod_token}
    IN  IF E = {} THEN 0 ELSE CHOOSE k \in E : \A m \in E : m <= k

GetLtorMasksAndPositionIds(data, eod_token, reset_position_ids, reset_attention_mask, compute_attention_mask) ==
    LET S == Width(data)
        MaskOf(b) == [i \in 1..S |-> [j \in 1..S |->
                         \/ j > i
                         \/ reset_attention_mask /\ j <= DocStart(data[b], eod_token, i)]]
        mask == IF reset_attention_mask
                THEN [b \in DOMAIN data |-> MaskOf(b)]
                ELSE <<MaskOf(1)>>
    IN  [attention_mask |-> IF compute_attention_mask THEN Tensor(mask) ELSE NoneTensor,
         position_ids |->
             Tensor([b \in DOMAIN data |-> [j \in 1..S |->
                 IF reset_position_ids
                 THEN j - 1 - DocStart(data[b], eod_token, j)
                 ELSE j - 1]])]

(***************************************************************************)
(* init_batch and prepare_batch_at_step                                    *)
(***************************************************************************)
Variants == {"gpt", "neva", "prompt", "retro"}

\* the extra arguments and attributes of the variants: the media tensor passed to the
\* multimodal prepare_batch_at_step, the task ids the prompt-tuned strategy was
\* constructed with, extra['neighbors_tokens'] of the retrieval variant
media == Tensor("media")

task_ids == Tensor("task_ids")

neighbors_tokens == <<<<3, 0, 4>>, <<4, 4, 0>>>>

\* cfg.get(key, False)
ResetFlags(v, c) ==
    IF v = "neva"
    THEN [reset_position_ids |-> FALSE, reset_attention_mask |-> FALSE]
    ELSE [reset_position_ids |-> c.reset_position_ids,
          reset_attention_mask |-> c.reset_attention_mask]

\* init_batch: what it stores for the context tokens
InitBatchMasks(v, c, context_tokens, compute_attention_mask) ==
    GetLtorMasksAndPositionIds(context_tokens, eos_id,
                               ResetFlags(v, c).reset_position_ids,
                               ResetFlags(v, c).reset_attention_mask,
                               compute_attention_mask)

\* lines 295-310: the tokens and positions selected at a step, and the cache flag
SelectAlwaysPrefill(tokens, positions, micro_batch_size, step, context_length) ==
    [set_inference_key_value_memory |-> TRUE,
     tokens2use |-> SliceColumns(tokens, context_length),
     positions2use |-> SliceColumns(positions, context_length)]
SelectAtStep(tokens, positions, micro_batch_size, step, context_length) ==
    IF step = 0
    THEN [set_inference_key_value_memory |-> TRUE,
          tokens2use |-> SliceColumns(tokens, context_length),
          positions2use |-> SliceColumns(positions, context_length)]
    ELSE [set_inference_key_value_memory |-> FALSE,
          tokens2use |-> View(Column(tokens, context_length - 1), micro_batch_size),
          positions2use |-> View(Column(positions, context_length - 1), micro_batch_size)]

\* lines 313-315
MaskNotRepeated(mask, micro_batch_size, compute_attention_mask) ==
    IF compute_attention_mask THEN mask ELSE NoneTensor
AttentionMaskRepeat(mask, micro_batch_size, compute_attention_mask) ==
    IF compute_attention_mask
    THEN Tensor(ConcatCopies(mask.v, micro_batch_size))
    ELSE NoneTensor

\* the tensors each variant puts between positions2use and setkey_value_array
NeighborInputsSwapped(v, neighbor_mask, neighbor_positions) ==
    CASE v = "gpt" -> <<>>
      [] v = "neva" -> <<media>>
      [] v = "prompt" -> <<task_ids>>
      [] v = "retro" -> <<Tensor(neighbors_tokens), neighbor_positions, neighbor_mask>>
VariantInputs(v, neighbor_mask, neighbor_positions) ==
    CASE v = "gpt" -> <<>>
      [] v = "neva" -> <<media>>
      [] v = "prompt" -> <<task_ids>>
      [] v = "retro" -> <<Tensor(neighbors_tokens), neighbor_mask, neighbor_positions>>

\* prepare_batch_at_step: raises when position_ids was never stored, or when a mask is
\* asked for and init_batch stored none; otherwise returns (batch, tensor_shape)
PrepareBatchAtStep(v, c, mask, positions, neighbor_mask, neighbor_positions, tokens, maxlen, micro_batch_size, step, context_length, compute_attention_mask) ==
    IF ~IsTensor(positions) \/ (compute_attention_mask /\ ~IsTensor(mask))
    THEN [raised |-> TRUE]
    ELSE LET sel == SelectAtStep(tokens, positions.v, micro_batch_size, step,
                                 context_length)
             attention_mask_repeat ==
                 AttentionMaskRepeat(mask, micro_batch_size, compute_attention_mask)
             setkey_value_array == Times(sel.set_inference_key_value_memory,
                                         micro_batch_size)
             len_array == Times(maxlen, micro_batch_size)
         IN  [raised |-> FALSE,
              batch |-> <<sel.tokens2use, attention_mask_repeat, sel.positions2use>>
                            \o VariantInputs(v, neighbor_mask, neighbor_positions)
                            \o <<setkey_value_array, len_array>>,
              tensor_shape |-> <<Width(sel.tokens2use), micro_batch_size, c.hidden_size>>]

(***************************************************************************)
(* post_process of the prompt-tuned variant                                *)
(***************************************************************************)
\* lines 583-584: the masked assignment, for one id
RemapAbove(start, id) == IF id > start THEN unk_id ELSE id
Remap(start, id) == IF id >= start THEN unk_id ELSE id

\* post_process(tokens, new_tokens, context_length): the two tensors as it leaves them;
\* the base class and the other variants do nothing
PostProcessWholeRows(v, start, tokens, new_tokens, context_length) ==
    IF v = "prompt" /\ start # NoneValue
    THEN [new_tokens |-> [b \in DOMAIN new_tokens |-> Remap(start.v, new_tokens[b])],
          tokens |-> [b \in DOMAIN tokens |->
                         [j \in DOMAIN tokens[b] |-> Remap(start.v, tokens[b][j])]]]
    ELSE [new_tokens |-> new_tokens, tokens |-> tokens]
PostProcess(v, start, tokens, new_tokens, context_length) ==
    IF v = "prompt" /\ start # NoneValue
    THEN [new_tokens |-> [b \in DOMAIN new_tokens |-> Remap(start.v, new_tokens[b])],
          tokens |-> [b \in DOMAIN tokens |->
                         [j \in DOMAIN tokens[b] |->
                             IF j <= context_length
                             THEN Remap(start.v, tokens[b][j])
                             ELSE tokens[b][j]]]]
    ELSE [new_tokens |-> new_tokens, tokens |-> tokens]

(***************************************************************************)
(* __init__ and model_inference_strategy_dispatcher                        *)
(***************************************************************************)
\* what a call outside the generation loop comes back with: a raised exception, or a
\* returned value
Raised(error) == [raised |-> TRUE, error |-> error]

Returned(value) == [raised |-> FALSE, value |-> value]

\* lines 57-61: whether __init__ calls self.model.eval()
EvalAlways(model_training) == TRUE
CallsEval(model_training) == model_training

\* the model classes the dispatcher imports, and one it does not know
ModelClasses == {"MegatronNevaModel", "MegatronGPTPromptLearningModel",
                 "MegatronGPTModel", "MegatronRetrievalModel", "MegatronT5Model"}

\* isinstance(model, class): the multimodal model class derives from the plain decoder's
IsInstance(model, class) ==
    \/ model = class
    \/ model = "MegatronNevaModel" /\ class = "MegatronGPTModel"

\* a keyword dictionary without entries
NoArgs == [k \in {} |-> 0]

RetroStrategyNames == {"RetroModelTextGenerationStrategy",
                       "RetroQAModelTextGenerationStrategy",
                       "RetroFileQAModelTextGenerationStrategy"}

\* lines 897-904: the strategy classes of the retrieval model are those imported from
\* retro_inference_strategies_legacy at lines 881-885
RetroStrategyDefaults(strategy_name) ==
    IF strategy_name \in RetroStrategyNames
    THEN Returned("retro_inference_strategies_legacy." \o strategy_name)
    ELSE Returned("retro_inference_strategies_legacy.RetroModelTextGenerationStrategy")
RetroStrategy(strategy_name) ==
    IF strategy_name \in RetroStrategyNames
    THEN Returned("retro_inference_strategies_legacy." \o strategy_name)
    ELSE Raised("ValueError: is not supported for inference")

\* model_inference_strategy_dispatcher(model, **args)
ModelInferenceStrategyDispatcher(model, args) ==
    IF IsInstance(model, "MegatronNevaModel")
    THEN Returned("NevaModelTextGenerationStrategy")
    ELSE IF IsInstance(model, "MegatronGPTPromptLearningModel")
    THEN IF DOMAIN args = {"task_ids"}
         THEN Returned("PromptLearningModelTextGenerationStrategy")
         ELSE Raised("TypeError")
    ELSE IF IsInstance(model, "MegatronGPTModel")
    THEN Returned("GPTModelTextGenerationStrategy")
    ELSE IF IsInstance(model, "MegatronRetrievalModel")
    THEN IF "strategy" \in DOMAIN args
         THEN RetroStrategy(args.strategy)
         ELSE Raised("KeyError: 'strategy'")
    ELSE Raised("ValueError: is not supported for inference")

(***************************************************************************)
(* clip_max_len                                                            *)
(***************************************************************************)
\* cfg.get(key, default)
CfgGet(c, key, default) == IF key \in DOMAIN c THEN c[key] ELSE default

\* lines 263-264, 412-413, 529-530, 601-602
ClipAtSeqLength(maxlen, encoder_seq_length) ==
    IF maxlen > encoder_seq_length THEN encoder_seq_length ELSE maxlen
Clip(maxlen, encoder_seq_length) ==
    IF maxlen > encoder_seq_length + 1 THEN encoder_seq_length + 1 ELSE maxlen

\* clip_max_len(maxlen) of the four variants; the prompt-tuned one reads the
\* configuration of the frozen model
ClipMaxLen(v, c, frozen, maxlen) ==
    CASE v \in {"gpt", "retro"} ->
             IF CfgGet(c, "position_embedding_type", "learned_absolute")
                    = "learned_absolute"
             THEN Clip(maxlen, c.encoder_seq_length)
             ELSE maxlen
      [] v = "neva" -> Clip(maxlen, c.encoder_seq_length)
      [] v = "prompt" -> Clip(maxlen, frozen.encoder_seq_length)

(***************************************************************************)
(* tokenize_batch                                                          *)
(***************************************************************************)
\* tokenizer.bos_id
bos_id == 1

Max(S) == CHOOSE x \in S : \A y \in S : y <= x

\* pad_batch(batch, pad_id, max_len): every row padded on the right with pad_id to the
\* longest row's length plus max_len, and the rows' lengths before padding
PadBatch(batch, pad_id, max_len) ==
    LET max_context_length == Max({Len(batch[k]) : k \in DOMAIN batch})
    IN  [context_tokens |->
             [k \in DOMAIN batch |->
                 batch[k] \o [j \in 1..(max_context_length + max_len - Len(batch[k]))
                                 |-> pad_id]],
         context_lengths |-> [k \in DOMAIN batch |-> Len(batch[k])]]

\* lines 90-93: the prompts' ids, behind the bos id when add_BOS is set
ContextTokensWithoutBOS(tok, sentences, add_BOS) ==
    [k \in DOMAIN sentences |-> text_to_ids(tok, sentences[k])]
ContextTokens(tok, sentences, add_BOS) ==
    IF add_BOS
    THEN [k \in DOMAIN sentences |-> <<bos_id>> \o text_to_ids(tok, sentences[k])]
    ELSE [k \in DOMAIN sentences |-> text_to_ids(tok, sentences[k])]

\* tokenize_batch(sentences, max_len, add_BOS) of the base class
TokenizeBatch(tok, sentences, max_len, add_BOS) ==
    LET r == PadBatch(ContextTokens(tok, sentences, add_BOS), eos_id, max_len)
    IN  Returned([context_tokens_tensor |-> r.context_tokens,
                  context_length_tensor |-> r.context_lengths])

(***************************************************************************)
(* tokenize_neighbors_batch of the retrieval variant                       *)
(***************************************************************************)
\* tokenizer.tokenize(text): the ids of the text
tokenize(t, text) == text_to_ids(t, text)

\* list[a:b] for 0 <= a and 0 <= b
Slice(list, a, b) ==
    SubSeq(list, a + 1, IF b < Len(list) THEN b ELSE Len(list))

\* lines 645-648: one neighbor cut or padded to r ids
PadOnly(neighbour_tokens, r) ==
    neighbour_tokens \o [k \in 1..(r - Len(neighbour_tokens)) |-> eos_id]
PadOrTruncate(neighbour_tokens, r) ==
    IF Len(neighbour_tokens) >= r
    THEN Slice(neighbour_tokens, 0, r)
    ELSE neighbour_tokens \o [k \in 1..(r - Len(neighbour_tokens)) |-> eos_id]

\* lines 637-641: the neighbors taken
ValidNeighbours(tokenized, retro_args) ==
    IF retro_args.reuse_top
    THEN Slice(tokenized, 0, retro_args.retro_num_neighbors)
    ELSE Slice(tokenized, retro_args.ft_neighbours,
               retro_args.retro_num_neighbors + retro_args.ft_neighbours)

\* tokenize_neighbors_batch(neighbors, retro_args). Lines 652-654 assert an exception
\* object, which is true: the statement never fails, with too few neighbors either
TokenizeNeighborsBatch(tok, neighbors, retro_args) ==
    LET tokenized == [k \in 1..Len(neighbors) |-> tokenize(tok, neighbors[k])]
        valid_neighbours_tokens == ValidNeighbours(tokenized, retro_args)
        padded_valid_neighbours_tokens ==
            [k \in 1..Len(valid_neighbours_tokens) |->
                PadOrTruncate(valid_neighbours_tokens[k],
                              retro_args.retro_gpt_retrieved_length)]
    IN  Returned(padded_valid_neighbours_tokens)

(***************************************************************************)
(* Arguments held by the generation loop                                   *)
(***************************************************************************)
EndStrings == {END_OF_SEQ, "Done", "STOP"}

SeqsUpTo(S, n) == UNION {[1..k -> S] : k \in 0..n}

EndStringLists == SeqsUpTo(EndStrings, MaxEndStrings)

EodIds == {0, 1}

\* token rows: under tokA "STOP" and "OPST", under tokB "<extra_id_1>Done" and
\* "one<extra_id_1>D"
Rows == {<<3, 4>>, <<4, 3>>}

TokenGrids == [BatchIdx -> Rows]

PrevIds == {0, 2}

\* token rows of the grids passed to init_batch and prepare_batch_at_step, with the
\* end-of-document token in different columns
BatchRows == {<<3, 0, 4>>, <<0, 3, 4>>}

BatchGrids == [BatchIdx -> BatchRows]

Steps == 0..MaxStep

\* step > 0 implies context_length >= 1; context_length never exceeds the grid width
ContextLengths(grid) == 1..Width(grid)

Configs == [reset_position_ids : BOOLEAN, reset_attention_mask : BOOLEAN,
            hidden_size : {8}]

\* the first id of the soft-prompt tokens of a prompt-tuned model, and whether the
\* model has one
PseudoStart == 50000

PseudoStarts == {NoneValue, Number(PseudoStart)}

\* token rows and sampled tokens with ids below, at and above the first soft-prompt id
PostRows == {<<42, 50005, 50000>>, <<50000, 42, 50005>>, <<49999, 42, 42>>}

PostGrids == [BatchIdx -> PostRows]

NewTokens == [BatchIdx -> {42, 50000, 50005}]

\* the keyword arguments passed to the dispatcher: none, a strategy name, the task ids
DispatcherArgs ==
    {NoArgs, [task_ids |-> task_ids]}
        \cup {[strategy |-> n] : n \in RetroStrategyNames \cup {"GPTModelTextGenerationStrategy"}}

DispatcherCalls ==
    [op : {"model_inference_strategy_dispatcher"}, model : ModelClasses,
     args : DispatcherArgs]

ConstructorCalls == [op : {"__init__"}, class : Variants]

\* retrieved neighbors: of one and two tokens under tokA, of three and four under tokB
Neighbors == {"Done", "STOP"}

RetroArgs ==
    [retro_gpt_retrieved_length : 1..MaxRetrievedLength, retro_num_neighbors : 1..2,
     ft_neighbours : 0..1, reuse_top : BOOLEAN]

NeighborsCalls ==
    [op : {"tokenize_neighbors_batch"}, neighbors : SeqsUpTo(Neighbors, MaxNeighbors),
     retro_args : RetroArgs]

\* prompts: of no, one and three tokens under tokA, of one, four and five under tokB
Prompts == {"", "Done", "STOP!"}

TokenizeBatchCalls ==
    [op : {"tokenize_batch"}, sentences : SeqsUpTo(Prompts, MaxPrompts) \ {<<>>},
     max_len : 0..MaxGenerate, add_BOS : BOOLEAN]

Calls == DispatcherCalls \cup ConstructorCalls \cup NeighborsCalls
             \cup TokenizeBatchCalls

\* model configurations with position_embedding_type unset and set
ClipConfigs ==
    [encoder_seq_length : 1..MaxSeqLength]
        \cup [encoder_seq_length : 1..MaxSeqLength,
              position_embedding_type : {"learned_absolute", "rope"}]

\* maxlen below, at and above every encoder_seq_length + 1
ClipCalls == [op : {"clip_max_len"}, maxlen : 0..(MaxSeqLength + 2)]

Idle == [op |-> "idle"]

\* no call outside the generation loop is being made
NoCall == [op |-> "none"]

(***************************************************************************)
(* Actions                                                                 *)
(***************************************************************************)
BumpProbes(p, probed) ==
    [s \in EndStrings |-> p[s] + Cardinality({k \in 1..Len(probed) : probed[k] = s})]

\* end_of_generation_condition(tokens, prev, eod_id, end_strings)
EndOfGenerationCondition ==
    LET repeat == ret.op = "end_of_generation_condition"
        prevResult == IF repeat THEN ret.result ELSE <<>>
        invalidated == cache # NoCache /\ cache.tokenizer # tokenizer
    IN  /\ IF FastPath(arg_end_strings)
           THEN /\ ret' = [op |-> "end_of_generation_condition",
                           fast |-> TRUE, result |-> FastResult(arg_prev, arg_eod_id),
                           end_tokens |-> {}, end_strings_to_check |-> <<>>,
                           repeat |-> repeat, prevResult |-> prevResult,
                           invalidated |-> FALSE,
                           text_to_ids_calls |-> 0, ids_to_text_calls |-> 0]
                /\ UNCHANGED <<cache, probes>>
           ELSE LET r == GetEndOfGenerationTokensAndStrings(cache, tokenizer, arg_eod_id,
                                                           arg_end_strings)
                IN  /\ cache' = r.cache
                    /\ probes' = BumpProbes(probes, r.probed)
                    /\ ret' = [op |-> "end_of_generation_condition",
                               fast |-> FALSE,
                               result |-> GeneralResult(tokenizer, arg_tokens, arg_prev,
                                              r.end_tokens, r.end_strings_to_check),
                               end_tokens |-> r.end_tokens,
                               end_strings_to_check |-> r.end_strings_to_check,
                               repeat |-> repeat, prevResult |-> prevResult,
                               invalidated |-> invalidated,
                               text_to_ids_calls |-> 2 * Len(r.probed),
                               ids_to_text_calls |->
                                   IF r.end_strings_to_check # <<>>
                                   THEN Len(arg_tokens) ELSE 0]
        /\ UNCHANGED <<tokenizer, arg_tokens, eogArgs, batchArgs, callArgs,
                       modelFields, batchFields>>

\* the generation loop moves on: new tokens, a new previous token, or a request with
\* another end-of-document id or other end strings
LoopSetsArguments ==
    /\ \/ \E g \in TokenGrids \ {arg_tokens} :
              arg_tokens' = g /\ UNCHANGED <<arg_prev, arg_eod_id, arg_end_strings>>
       \/ \E p \in [BatchIdx -> PrevIds] \ {arg_prev} :
              arg_prev' = p /\ UNCHANGED <<arg_tokens, arg_eod_id, arg_end_strings>>
       \/ \E e \in EodIds \ {arg_eod_id} :
              arg_eod_id' = e /\ UNCHANGED <<arg_tokens, arg_prev, arg_end_strings>>
       \/ \E l \in EndStringLists \ {arg_end_strings} :
              arg_end_strings' = l /\ UNCHANGED <<arg_tokens, arg_prev, arg_eod_id>>
    /\ ret' = Idle
    /\ UNCHANGED <<tokenizer, cache, probes, batchArgs, callArgs, modelFields,
                   batchFields>>

\* the caller replaces the model's tokenizer by another object
SetTokenizer ==
    /\ \E t \in Tokenizers \ {tokenizer} : tokenizer' = t
    /\ probes' = [s \in EndStrings |-> 0]
    /\ ret' = Idle
    /\ UNCHANGED <<cache, arg_tokens, eogArgs, batchArgs, callArgs, modelFields,
                   batchFields>>

\* end_of_generation_condition is the base class's method, inherited unchanged by
\* every variant: the plain decoder stands for all of them here
Init ==
    /\ tokenizer \in Tokenizers
    /\ cache = NoCache
    /\ probes = [s \in EndStrings |-> 0]
    /\ arg_tokens \in TokenGrids
    /\ arg_prev \in [BatchIdx -> PrevIds]
    /\ arg_eod_id \in EodIds
    /\ arg_end_strings \in EndStringLists
    /\ arg_step = 0
    /\ arg_context_length = 1
    /\ arg_compute = TRUE
    /\ variant = "gpt"
    /\ cfg = [reset_position_ids |-> FALSE, reset_attention_mask |-> FALSE,
              hidden_size |-> 8]
    /\ attention_mask = Unset
    /\ position_ids = Unset
    /\ neighbor_attention_mask = Unset
    /\ neighbor_position_ids = Unset
    /\ training = FALSE
    /\ pseudo_token_ids_start = NoneValue
    /\ frozen_cfg = NoneValue
    /\ arg_new_tokens = [b \in BatchIdx |-> 0]
    /\ arg_call = NoCall
    /\ ret = Idle

Next ==
    \/ EndOfGenerationCondition
    \/ LoopSetsArguments
    \/ SetTokenizer

Spec == Init /\ [][Next]_vars

(***************************************************************************)
(* The batch preparation of one generation: init_batch once the loop has    *)
(* its token grid, then prepare_batch_at_step at every step.               *)
(***************************************************************************)
\* init_batch(context_tokens, context_length, compute_attention_mask, **extra)
InitBatch ==
    LET r == InitBatchMasks(variant, cfg, arg_tokens, arg_compute)
    IN  /\ attention_mask' = r.attention_mask
        /\ position_ids' = r.position_ids
        /\ IF variant = "retro"
           THEN /\ neighbor_position_ids' =
                       GetLtorMasksAndPositionIds(neighbors_tokens, eos_id,
                           cfg.reset_position_ids, cfg.reset_attention_mask,
                           TRUE).position_ids
                /\ neighbor_attention_mask' = NoneTensor
           ELSE UNCHANGED <<neighbor_attention_mask, neighbor_position_ids>>
        /\ ret' = [op |-> "init_batch"]
        /\ UNCHANGED <<tokenizer, cache, probes, arg_tokens, eogArgs, batchArgs,
                       callArgs, modelFields>>

\* prepare_batch_at_step(tokens, maxlen, micro_batch_size, step, context_length,
\*                       compute_attention_mask)
CallPrepareBatchAtStep ==
    /\ ret' = [op |-> "prepare_batch_at_step"] @@
                  PrepareBatchAtStep(variant, cfg, attention_mask, position_ids,
                      neighbor_attention_mask, neighbor_position_ids,
                      arg_tokens, Width(arg_tokens), Len(arg_tokens), arg_step,
                      arg_context_length, arg_compute)
    /\ UNCHANGED <<tokenizer, cache, probes, arg_tokens, eogArgs, batchArgs,
                   callArgs, modelFields, batchFields>>

\* the generation loop moves on: tokens written into the grid, the next step, another
\* context length, or a request with another compute_attention_mask flag
LoopSetsBatchArguments ==
    /\ \/ \E g \in BatchGrids \ {arg_tokens} :
              arg_tokens' = g /\ UNCHANGED batchArgs
       \/ \E n \in Steps \ {arg_step} :
              arg_step' = n /\ UNCHANGED <<arg_tokens, arg_context_length, arg_compute>>
       \/ \E n \in ContextLengths(arg_tokens) \ {arg_context_length} :
              arg_context_length' = n /\ UNCHANGED <<arg_tokens, arg_step, arg_compute>>
       \/ arg_compute' = ~arg_compute
              /\ UNCHANGED <<arg_tokens, arg_step, arg_context_length>>
    /\ ret' = Idle
    /\ UNCHANGED <<tokenizer, cache, probes, eogArgs, callArgs, modelFields,
                   batchFields>>

InitBatchSpec ==
    /\ tokenizer \in Tokenizers
    /\ cache = NoCache
    /\ probes = [s \in EndStrings |-> 0]
    /\ arg_tokens \in BatchGrids
    /\ arg_prev = [b \in BatchIdx |-> 0]
    /\ arg_eod_id = 0
    /\ arg_end_strings = <<>>
    /\ arg_step = 0
    /\ arg_context_length \in ContextLengths(arg_tokens)
    /\ arg_compute \in BOOLEAN
    /\ variant \in Variants
    /\ cfg \in Configs
    /\ attention_mask = Unset
    /\ position_ids = Unset
    /\ neighbor_attention_mask = Unset
    /\ neighbor_position_ids = Unset
    /\ training = FALSE
    /\ pseudo_token_ids_start = NoneValue
    /\ frozen_cfg = NoneValue
    /\ arg_new_tokens = [b \in BatchIdx |-> 0]
    /\ arg_call = NoCall
    /\ ret = Idle

NextBatch ==
    \/ InitBatch
    \/ CallPrepareBatchAtStep
    \/ LoopSetsBatchArguments

SpecBatch == InitBatchSpec /\ [][NextBatch]_vars

(***************************************************************************)
(* The end of a generation step: the loop has sampled a token for every    *)
(* sequence and hands the grid and the sampled tokens to post_process,     *)
(* which rewrites both in place.                                           *)
(***************************************************************************)
\* post_process(tokens, new_tokens, context_length)
CallPostProcess ==
    LET r == PostProcess(variant, pseudo_token_ids_start, arg_tokens, arg_new_tokens,
                         arg_context_length)
    IN  /\ arg_tokens' = r.tokens
        /\ arg_new_tokens' = r.new_tokens
        /\ ret' = [op |-> "post_process", tokens |-> arg_tokens,
                   new_tokens |-> arg_new_tokens]
        /\ UNCHANGED <<tokenizer, cache, probes, eogArgs, batchArgs, arg_call,
                       modelFields, batchFields>>

\* the generation loop moves on: the next sampled tokens, the grid of the next step,
\* another context length
LoopSetsPostArguments ==
    /\ \/ \E n \in NewTokens \ {arg_new_tokens} :
              arg_new_tokens' = n /\ UNCHANGED <<arg_tokens, arg_context_length>>
       \/ \E g \in PostGrids \ {arg_tokens} :
              arg_tokens' = g /\ UNCHANGED <<arg_new_tokens, arg_context_length>>
       \/ \E n \in ContextLengths(arg_tokens) \ {arg_context_length} :
              arg_context_length' = n /\ UNCHANGED <<arg_tokens, arg_new_tokens>>
    /\ ret' = Idle
    /\ UNCHANGED <<tokenizer, cache, probes, eogArgs, arg_step, arg_compute, arg_call,
                   modelFields, batchFields>>

InitPost ==
    /\ tokenizer \in Tokenizers
    /\ cache = NoCache
    /\ probes = [s \in EndStrings |-> 0]
    /\ arg_tokens \in PostGrids
    /\ arg_prev = [b \in BatchIdx |-> 0]
    /\ arg_eod_id = 0
    /\ arg_end_strings = <<>>
    /\ arg_step = 0
    /\ arg_context_length \in ContextLengths(arg_tokens)
    /\ arg_compute = TRUE
    /\ variant \in {"gpt", "prompt"}
    /\ cfg = [reset_position_ids |-> FALSE, reset_attention_mask |-> FALSE,
              hidden_size |-> 8]
    /\ attention_mask = Unset
    /\ position_ids = Unset
    /\ neighbor_attention_mask = Unset
    /\ neighbor_position_ids = Unset
    /\ training = FALSE
    /\ pseudo_token_ids_start \in PseudoStarts
    /\ frozen_cfg = NoneValue
    /\ arg_new_tokens \in NewTokens
    /\ arg_call = NoCall
    /\ ret = Idle

NextPost ==
    \/ CallPostProcess
    \/ LoopSetsPostArguments

SpecPost == InitPost /\ [][NextPost]_vars

(***************************************************************************)
(* The start of a generation: the caller computes maxlen from the context  *)
(* and the tokens to generate and has the strategy clip it.                *)
(***************************************************************************)
\* clip_max_len(maxlen)
CallClipMaxLen ==
    /\ arg_call.op = "clip_max_len"
    /\ ret' = [op |-> "clip_max_len"] @@
                  Returned(ClipMaxLen(variant, cfg, frozen_cfg, arg_call.maxlen))
    /\ UNCHANGED <<tokenizer, cache, probes, arg_tokens, eogArgs, batchArgs, callArgs,
                   modelFields, batchFields>>

\* the caller computes another maxlen
CallerSetsMaxlen ==
    /\ \E c \in ClipCalls \ {arg_call} : arg_call' = c
    /\ ret' = Idle
    /\ UNCHANGED <<tokenizer, cache, probes, arg_tokens, eogArgs, batchArgs,
                   arg_new_tokens, modelFields, batchFields>>

InitClip ==
    /\ tokenizer \in Tokenizers
    /\ cache = NoCache
    /\ probes = [s \in EndStrings |-> 0]
    /\ arg_tokens = [b \in BatchIdx |-> <<3, 4>>]
    /\ arg_prev = [b \in BatchIdx |-> 0]
    /\ arg_eod_id = 0
    /\ arg_end_strings = <<>>
    /\ arg_step = 0
    /\ arg_context_length = 1
    /\ arg_compute = TRUE
    /\ variant \in Variants
    /\ cfg \in ClipConfigs
    /\ attention_mask = Unset
    /\ position_ids = Unset
    /\ neighbor_attention_mask = Unset
    /\ neighbor_position_ids = Unset
    /\ training = FALSE
    /\ pseudo_token_ids_start = NoneValue
    /\ frozen_cfg \in [encoder_seq_length : 1..MaxSeqLength]
    /\ arg_new_tokens = [b \in BatchIdx |-> 0]
    /\ arg_call \in ClipCalls
    /\ ret = Idle

NextClip ==
    \/ CallClipMaxLen
    \/ CallerSetsMaxlen

SpecClip == InitClip /\ [][NextClip]_vars

(***************************************************************************)
(* The calls made outside the generation loop: a strategy is constructed,  *)
(* directly or by the dispatcher, on a model that may be in training mode. *)
(***************************************************************************)
\* TextGenerationStrategy.__init__(model), run by the constructor of every variant
CallInit ==
    /\ arg_call.op = "__init__"
    /\ variant' = arg_call.class
    /\ training' = (training /\ ~CallsEval(training))
    /\ cache' = NoCache
    /\ probes' = [s \in EndStrings |-> 0]
    /\ attention_mask' = Unset
    /\ position_ids' = Unset
    /\ neighbor_attention_mask' = Unset
    /\ neighbor_position_ids' = Unset
    /\ ret' = [op |-> "__init__", was_training |-> training,
               eval_calls |-> IF CallsEval(training) THEN 1 ELSE 0] @@ Returned("None")
    /\ UNCHANGED <<tokenizer, arg_tokens, eogArgs, batchArgs, callArgs, cfg,
                   pseudo_token_ids_start, frozen_cfg>>

\* model_inference_strategy_dispatcher(model, **args): a returned strategy has been
\* constructed on the model
CallDispatcher ==
    LET r == ModelInferenceStrategyDispatcher(arg_call.model, arg_call.args)
    IN  /\ arg_call.op = "model_inference_strategy_dispatcher"
        /\ training' = (training /\ (r.raised \/ ~CallsEval(training)))
        /\ ret' = [op |-> "model_inference_strategy_dispatcher"] @@ r
        /\ UNCHANGED <<tokenizer, cache, probes, arg_tokens, eogArgs, batchArgs,
                       callArgs, variant, cfg, pseudo_token_ids_start, frozen_cfg,
                       batchFields>>

\* tokenize_batch(sentences, max_len, add_BOS)
CallTokenizeBatch ==
    /\ arg_call.op = "tokenize_batch"
    /\ ret' = [op |-> "tokenize_batch"] @@
                  TokenizeBatch(tokenizer, arg_call.sentences, arg_call.max_len,
                                arg_call.add_BOS)
    /\ UNCHANGED <<tokenizer, cache, probes, arg_tokens, eogArgs, batchArgs, callArgs,
                   modelFields, batchFields>>

\* tokenize_neighbors_batch(neighbors, retro_args)
CallTokenizeNeighborsBatch ==
    /\ arg_call.op = "tokenize_neighbors_batch"
    /\ ret' = [op |-> "tokenize_neighbors_batch"] @@
                  TokenizeNeighborsBatch(tokenizer, arg_call.neighbors,
                                         arg_call.retro_args)
    /\ UNCHANGED <<tokenizer, cache, probes, arg_tokens, eogArgs, batchArgs, callArgs,
                   modelFields, batchFields>>

\* the caller prepares another call
CallerSetsCall ==
    /\ \E c \in Calls \ {arg_call} : arg_call' = c
    /\ ret' = Idle
    /\ UNCHANGED <<tokenizer, cache, probes, arg_tokens, eogArgs, batchArgs,
                   arg_new_tokens, modelFields, batchFields>>

\* the caller puts the model back into training mode (model.train())
ModelTrain ==
    /\ ~training
    /\ training' = TRUE
    /\ ret' = Idle
    /\ UNCHANGED <<tokenizer, cache, probes, arg_tokens, eogArgs, batchArgs, callArgs,
                   variant, cfg, pseudo_token_ids_start, frozen_cfg, batchFields>>

InitCalls ==
    /\ tokenizer \in Tokenizers
    /\ cache = NoCache
    /\ probes = [s \in EndStrings |-> 0]
    /\ arg_tokens = [b \in BatchIdx |-> <<3, 4>>]
    /\ arg_prev = [b \in BatchIdx |-> 0]
    /\ arg_eod_id = 0
    /\ arg_end_strings = <<>>
    /\ arg_step = 0
    /\ arg_context_length = 1
    /\ arg_compute = TRUE
    /\ variant = "gpt"
    /\ cfg = [reset_position_ids |-> FALSE, reset_attention_mask |-> FALSE,
              hidden_size |-> 8]
    /\ attention_mask = Unset
    /\ position_ids = Unset
    /\ neighbor_attention_mask = Unset
    /\ neighbor_position_ids = Unset
    /\ training \in BOOLEAN
    /\ pseudo_token_ids_start = NoneValue
    /\ frozen_cfg = NoneValue
    /\ arg_new_tokens = [b \in BatchIdx |-> 0]
    /\ arg_call \in Calls
    /\ ret = Idle

NextCalls ==
    \/ CallInit
    \/ CallDispatcher
    \/ CallTokenizeBatch
    \/ CallTokenizeNeighborsBatch
    \/ CallerSetsCall
    \/ ModelTrain

SpecCalls == InitCalls /\ [][NextCalls]_vars

(***************************************************************************)
(* Properties of end_of_generation_condition                               *)
(***************************************************************************)
Called == ret.op = "end_of_generation_condition"

General == Called /\ ~ret.fast

Range(seq) == {seq[k] : k \in DOMAIN seq}

\* s is the text's tail: the text is some prefix followed by s
IsSuffix(s, text) == \E n \in 0..Len(text) : SubSeq(text, 1, n) \o s = text

DecodedText(i) == ids_to_text(tokenizer, arg_tokens[i])

\* the two probes of the discovery heuristic under tokenizer object t
ProbeRef(t) == text_to_ids(t, "<extra_id_1>")

ProbeWith(t, s) == text_to_ids(t, "<extra_id_1>" \o s)

ProbeFindsToken(t, s) ==
    /\ Len(ProbeWith(t, s)) = Len(ProbeRef(t)) + 1
    /\ \A j \in 1..Len(ProbeRef(t)) : ProbeWith(t, s)[j] = ProbeRef(t)[j]

ProbeToken(t, s) == ProbeWith(t, s)[Len(ProbeWith(t, s))]

\* C2: called with end_strings empty or equal to ['<|endoftext|>'], the result for
\* every sequence i is exactly prev[i] == eod_id, whatever tokens holds.
C2_FastPathComparesWithEod ==
    (Called /\ (arg_end_strings = <<>> \/ arg_end_strings = <<END_OF_SEQ>>))
        => \A i \in BatchIdx : ret.result[i] = (arg_prev[i] = arg_eod_id)

C2_Witness ==
    /\ Called
    /\ arg_end_strings = <<END_OF_SEQ>>
    /\ \E i, j \in BatchIdx : ret.result[i] /\ ~ret.result[j]

\* C3: on the general path the result for sequence i is true iff prev[i] is in the
\* resolved end_tokens or the text decoded from the whole of tokens[i] ends with at
\* least one string of the resolved end_strings_to_check.
C3_GeneralPathResult ==
    General =>
        \A i \in BatchIdx :
            ret.result[i] <=>
                \/ arg_prev[i] \in ret.end_tokens
                \/ \E s \in Range(ret.end_strings_to_check) : IsSuffix(s, DecodedText(i))

C3_Witness ==
    /\ General
    /\ ret.end_strings_to_check # <<>>
    /\ \E i, j \in BatchIdx :
          /\ ret.result[i] /\ arg_prev[i] \notin ret.end_tokens
          /\ ret.result[j] /\ arg_prev[j] \in ret.end_tokens
          /\ \A s \in Range(ret.end_strings_to_check) : ~IsSuffix(s, DecodedText(j))

\* C4: the resolved end_tokens always contain the eod_id of the call, also when
\* '<|endoftext|>' is not among end_strings; for every end_strings list a sequence
\* whose previous token equals eod_id is reported as stopped.
C4_EodAlwaysStops ==
    /\ General => arg_eod_id \in ret.end_tokens
    /\ Called => \A i \in BatchIdx : arg_prev[i] = arg_eod_id => ret.result[i]

C4_Witness ==
    /\ General
    /\ END_OF_SEQ \notin Range(arg_end_strings)
    /\ cache.end_string_to_token[END_OF_SEQ] # arg_eod_id
    /\ \E i \in BatchIdx : arg_prev[i] = arg_eod_id /\ ret.result[i]

\* the cache as the resolver sees it after the staleness test of line 208
CacheAtResolve ==
    IF cache = NoCache \/ cache.tokenizer # tokenizer
    THEN [tokenizer |-> tokenizer,
          end_string_to_token |-> [s \in {END_OF_SEQ} |-> arg_eod_id],
          end_strings_to_check |-> {}]
    ELSE cache

NotYetCached(s) ==
    /\ s \notin DOMAIN CacheAtResolve.end_string_to_token
    /\ s \notin CacheAtResolve.end_strings_to_check

\* C5: for an end string not yet in the cache, the resolver maps it to a single
\* token (the last id of the second tokenization, added to end_tokens and memoized)
\* iff the second tokenization is exactly one id longer than the first and starts
\* with the first; otherwise the string goes to end_strings_to_check and is memoized
\* as such.  The call returns in both cases.
C5_DiscoveryHeuristic ==
    [][(ret'.op = "end_of_generation_condition" /\ ~ret'.fast) =>
          \A s \in Range(arg_end_strings) :
              NotYetCached(s) =>
                  IF ProbeFindsToken(tokenizer, s)
                  THEN /\ s \in DOMAIN cache'.end_string_to_token
                       /\ cache'.end_string_to_token[s] = ProbeToken(tokenizer, s)
                       /\ ProbeToken(tokenizer, s) \in ret'.end_tokens
                       /\ s \notin cache'.end_strings_to_check
                       /\ s \notin Range(ret'.end_strings_to_check)
                  ELSE /\ s \in cache'.end_strings_to_check
                       /\ s \in Range(ret'.end_strings_to_check)
                       /\ s \notin DOMAIN cache'.end_string_to_token]_vars

C5_Witness ==
    /\ General
    /\ tokenizer = "tokB"
    /\ arg_end_strings = <<"Done", "STOP">>
    /\ probes["Done"] = 1 /\ probes["STOP"] = 1
    /\ cache.end_strings_to_check = {"Done"}
    /\ cache.end_string_to_token["STOP"] = 2
    /\ ret.end_tokens = {arg_eod_id, 2}

\* C6: while the tokenizer object stays the same, the two discovery probes run at
\* most once per distinct end string, whether it resolved to a token or to a string
\* check, and also when it occurs several times in one end_strings list.
C6_ProbedAtMostOnce ==
    \A s \in EndStrings : probes[s] <= 1

C6_Witness ==
    /\ General
    /\ ret.repeat
    /\ arg_end_strings = <<"STOP", "STOP">>
    /\ tokenizer = "tokA"
    /\ probes["STOP"] = 1
    /\ ret.end_strings_to_check = <<"STOP", "STOP">>

\* C7: a general-path call that finds another tokenizer object than the one the
\* cache records discards the cache before resolving; so what the cache holds and
\* what a call returns was found by probing the tokenizer object of that call.
C7_NothingFromAnotherTokenizer ==
    /\ General => cache.tokenizer = tokenizer
    /\ cache # NoCache =>
          /\ \A s \in DOMAIN cache.end_string_to_token \ {END_OF_SEQ} :
                 /\ ProbeFindsToken(cache.tokenizer, s)
                 /\ cache.end_string_to_token[s] = ProbeToken(cache.tokenizer, s)
          /\ \A s \in cache.end_strings_to_check : ~ProbeFindsToken(cache.tokenizer, s)
    /\ General =>
          /\ \A s \in Range(ret.end_strings_to_check) : ~ProbeFindsToken(tokenizer, s)
          /\ ret.end_tokens \subseteq
                 {arg_eod_id, cache.end_string_to_token[END_OF_SEQ]}
                     \cup {ProbeToken(tokenizer, s) : s \in Range(arg_end_strings)}

C7_Witness ==
    /\ General
    /\ ret.invalidated
    /\ tokenizer = "tokB"
    /\ arg_end_strings = <<"Done">>
    /\ ret.end_strings_to_check = <<"Done">>
    /\ 2 \notin ret.end_tokens

\* C8: calling end_of_generation_condition again with the same tokens, prev, eod_id
\* and end_strings under the same tokenizer returns the same per-sequence result.
C8_Idempotent ==
    (Called /\ ret.repeat) => ret.result = ret.prevResult

C8_Witness ==
    /\ General
    /\ ret.repeat
    /\ DOMAIN cache.end_string_to_token # {END_OF_SEQ}
    /\ cache.end_strings_to_check # {}
    /\ \E i, j \in BatchIdx : ret.result[i] /\ ~ret.result[j]

StopIsStringChecked ==
    /\ General
    /\ arg_end_strings = <<"STOP">>
    /\ ~ProbeFindsToken(tokenizer, "STOP")

\* C9 as stated: with end_strings = ['STOP'] and no single token for 'STOP', 'STOP' is
\* in end_strings_to_check and a sequence is stopped iff its decoded text ends
\* with 'STOP'.
C9_Original ==
    StopIsStringChecked =>
        /\ "STOP" \in Range(ret.end_strings_to_check)
        /\ \A i \in BatchIdx : ret.result[i] <=> IsSuffix("STOP", DecodedText(i))

\* C9 amended: with end_strings = ['STOP'] and no single token for 'STOP', 'STOP' is
\* in end_strings_to_check and a sequence is stopped iff its previous token equals
\* eod_id or its decoded text ends with 'STOP'.
C9_StopOrEod ==
    StopIsStringChecked =>
        /\ "STOP" \in Range(ret.end_strings_to_check)
        /\ \A i \in BatchIdx :
              ret.result[i] <=> (arg_prev[i] = arg_eod_id \/ IsSuffix("STOP", DecodedText(i)))

C9_Witness ==
    /\ StopIsStringChecked
    /\ \E i, j \in BatchIdx :
          /\ ret.result[i] /\ arg_prev[i] # arg_eod_id
          /\ ~ret.result[j]

(***************************************************************************)
(* Properties of prepare_batch_at_step                                     *)
(***************************************************************************)
Prepared == ret.op = "prepare_batch_at_step" /\ ~ret.raised

tokens2use == ret.batch[1]

attention_mask_repeat == ret.batch[2]

positions2use == ret.batch[3]

setkey_value_array == ret.batch[Len(ret.batch) - 1]

\* C1: for every variant, at step 0 the tokens and positions fed are exactly the
\* columns [0, context_length) and every cache-allocation flag is true; at a step > 0
\* they are exactly the single column at index context_length - 1, of shape
\* [batch_size, 1], and every cache-allocation flag is false.
C1_PrefillThenSingleColumn ==
    Prepared =>
        /\ DOMAIN tokens2use = BatchIdx /\ DOMAIN positions2use = BatchIdx
        /\ DOMAIN setkey_value_array = BatchIdx
        /\ arg_step = 0 =>
              \A b \in BatchIdx :
                  /\ Len(tokens2use[b]) = arg_context_length
                  /\ Len(positions2use[b]) = arg_context_length
                  /\ \A j \in 1..arg_context_length :
                         /\ tokens2use[b][j] = arg_tokens[b][j]
                         /\ positions2use[b][j] = position_ids.v[b][j]
                  /\ setkey_value_array[b] = TRUE
        /\ arg_step > 0 =>
              \A b \in BatchIdx :
                  /\ tokens2use[b] = <<arg_tokens[b][arg_context_length]>>
                  /\ positions2use[b] = <<position_ids.v[b][arg_context_length]>>
                  /\ setkey_value_array[b] = FALSE

C1_Witness ==
    /\ Prepared
    /\ variant = "retro"
    /\ arg_step = MaxStep
    /\ arg_context_length = 3
    /\ cfg.reset_position_ids
    /\ tokens2use = <<<<4>>, <<4>>>>
    /\ positions2use = <<<<0>>, <<1>>>>

\* C10: when compute_attention_mask is true the mask of the returned batch is the
\* attention mask stored by init_batch, batch_size times along the batch dimension,
\* at step 0 and at every later step; when it is false the mask of the returned
\* batch is None.
C10_MaskReplicated ==
    Prepared =>
        IF arg_compute
        THEN LET stored == attention_mask.v
             IN  /\ IsTensor(attention_mask_repeat)
                 /\ Len(attention_mask_repeat.v) = Len(arg_tokens) * Len(stored)
                 /\ \A copy \in 0..(Len(arg_tokens) - 1), m \in 1..Len(stored) :
                        attention_mask_repeat.v[copy * Len(stored) + m] = stored[m]
        ELSE attention_mask_repeat = NoneTensor

C10_Witness ==
    /\ Prepared
    /\ arg_step > 0
    /\ arg_compute
    /\ Len(attention_mask.v) = 1
    /\ Len(attention_mask_repeat.v) = 2

\* the inputs of the returned list after tokens2use, attention_mask_repeat and
\* positions2use and before the two per-sequence arrays that close it
ExtraInputs == SubSeq(ret.batch, 4, Len(ret.batch) - 2)

\* C11: the list returned by prepare_batch_at_step carries, right after the tokens, the
\* mask and the positions, the extra inputs of the variant in this order: plain
\* decoder none; multimodal the media tensor; prompt-tuned the task-id tensor;
\* retrieval-augmented the neighbor token grid, then the neighbor attention mask, then
\* the neighbor position ids.
C11_ExtraInputsInOrder ==
    Prepared =>
        /\ variant = "gpt" => Len(ret.batch) = 5
        /\ variant = "neva" => Len(ret.batch) = 6 /\ ExtraInputs[1] = media
        /\ variant = "prompt" => Len(ret.batch) = 6 /\ ExtraInputs[1] = task_ids
        /\ variant = "retro" =>
              /\ Len(ret.batch) = 8
              /\ ExtraInputs[1] = Tensor(neighbors_tokens)
              /\ ExtraInputs[2] = neighbor_attention_mask
              /\ ExtraInputs[3] = neighbor_position_ids

C11_Witness ==
    /\ Prepared
    /\ variant = "retro"
    /\ Len(ExtraInputs) = 3
    /\ ExtraInputs[2] = NoneTensor
    /\ IsTensor(ExtraInputs[3])

(***************************************************************************)
(* Properties of post_process                                              *)
(***************************************************************************)
PostProcessed == ret.op = "post_process"

\* C12: after the prompt-tuned post_process with a first soft-prompt id P set, every
\* id >= P in new_tokens and in the columns [0, context_length) of tokens has been
\* replaced by the tokenizer's unk_id, and every id < P in those places keeps its value.
C12_PseudoTokensBecomeUnk ==
    (PostProcessed /\ variant = "prompt" /\ pseudo_token_ids_start # NoneValue) =>
        LET P == pseudo_token_ids_start.v
        IN  /\ \A b \in BatchIdx :
                   /\ ret.new_tokens[b] >= P => arg_new_tokens[b] = unk_id
                   /\ ret.new_tokens[b] < P => arg_new_tokens[b] = ret.new_tokens[b]
            /\ \A b \in BatchIdx, j \in 1..arg_context_length :
                   /\ ret.tokens[b][j] >= P => arg_tokens[b][j] = unk_id
                   /\ ret.tokens[b][j] < P => arg_tokens[b][j] = ret.tokens[b][j]

C12_Witness ==
    /\ PostProcessed
    /\ variant = "prompt"
    /\ pseudo_token_ids_start = Number(PseudoStart)
    /\ arg_context_length = 2
    /\ ret.new_tokens = <<50005, 42>>
    /\ arg_new_tokens = <<unk_id, 42>>
    /\ ret.tokens[1] = <<50000, 42, 50005>>
    /\ arg_tokens[1] = <<unk_id, 42, 50005>>

(***************************************************************************)
(* Properties of the calls made outside the generation loop                *)
(***************************************************************************)
Dispatched == ret.op = "model_inference_strategy_dispatcher"

\* the strategy class of a supported model family
FamilyStrategy(model) ==
    CASE model = "MegatronNevaModel" -> "NevaModelTextGenerationStrategy"
      [] model = "MegatronGPTPromptLearningModel" ->
             "PromptLearningModelTextGenerationStrategy"
      [] model = "MegatronGPTModel" -> "GPTModelTextGenerationStrategy"

\* C13: the dispatcher returns one strategy, the one of the family, for a multimodal
\* model, a plain decoder model, and a prompt-tuned model passed with its task ids; it
\* raises the "is not supported for inference" error, returning nothing, for a model of
\* any other type; for a retrieval model it raises when no strategy name is passed,
\* returns the named strategy for one of the three names, and raises the same "is not
\* supported for inference" error for any other name.
C13_DispatchOrUnsupported ==
    Dispatched =>
        LET model == arg_call.model
            args == arg_call.args
            unsupported == Raised("ValueError: is not supported for inference")
        IN  /\ model \in {"MegatronNevaModel", "MegatronGPTModel"} =>
                   ~ret.raised /\ ret.value = FamilyStrategy(model)
            /\ (model = "MegatronGPTPromptLearningModel" /\ DOMAIN args = {"task_ids"}) =>
                   ~ret.raised /\ ret.value = FamilyStrategy(model)
            /\ model = "MegatronT5Model" =>
                   ret.raised /\ ret.error = unsupported.error
            /\ model = "MegatronRetrievalModel" =>
                   /\ "strategy" \notin DOMAIN args => ret.raised
                   /\ "strategy" \in DOMAIN args =>
                          IF args.strategy \in RetroStrategyNames
                          THEN /\ ~ret.raised
                               /\ ret.value =
                                      "retro_inference_strategies_legacy." \o args.strategy
                          ELSE ret.raised /\ ret.error = unsupported.error

C13_Witness ==
    /\ Dispatched
    /\ arg_call.model = "MegatronRetrievalModel"
    /\ arg_call.args = [strategy |-> "GPTModelTextGenerationStrategy"]
    /\ ret.raised

NeighborsTokenized == ret.op = "tokenize_neighbors_batch"

\* the number of neighbor rows tokenize_neighbors_batch selects from its argument
SelectedRows ==
    LET n == Len(arg_call.neighbors)
        a == arg_call.retro_args
        skipped == IF a.reuse_top THEN 0 ELSE a.ft_neighbours
        left == IF n > skipped THEN n - skipped ELSE 0
    IN  IF left < a.retro_num_neighbors THEN left ELSE a.retro_num_neighbors

\* C14: tokenize_neighbors_batch raises an error whenever the number of selected
\* neighbor rows is smaller than retro_num_neighbors, and never returns a neighbor grid
\* with fewer than retro_num_neighbors rows.
C14_TooFewNeighborsRaises ==
    NeighborsTokenized =>
        /\ SelectedRows < arg_call.retro_args.retro_num_neighbors => ret.raised
        /\ ~ret.raised => Len(ret.value) >= arg_call.retro_args.retro_num_neighbors

\* C17: every row tokenize_neighbors_batch returns holds exactly
\* retro_gpt_retrieved_length ids: the first retro_gpt_retrieved_length ids of a
\* selected neighbor with at least that many tokens, and all ids of a shorter one
\* followed by the tokenizer's eos id up to that length; it returns no more than
\* retro_num_neighbors rows.
C17_RowsOfRetrievedLength ==
    (NeighborsTokenized /\ ~ret.raised) =>
        LET a == arg_call.retro_args
            r == a.retro_gpt_retrieved_length
            skipped == IF a.reuse_top THEN 0 ELSE a.ft_neighbours
        IN  /\ Len(ret.value) <= a.retro_num_neighbors
            /\ Len(ret.value) = SelectedRows
            /\ \A i \in 1..Len(ret.value) :
                   LET row == ret.value[i]
                       ids == tokenize(tokenizer, arg_call.neighbors[skipped + i])
                   IN  /\ Len(row) = r
                       /\ Len(ids) >= r => \A j \in 1..r : row[j] = ids[j]
                       /\ Len(ids) < r =>
                              /\ \A j \in 1..Len(ids) : row[j] = ids[j]
                              /\ \A j \in (Len(ids) + 1)..r : row[j] = eos_id

C17_Witness ==
    /\ NeighborsTokenized
    /\ ~ret.raised
    /\ tokenizer = "tokA"
    /\ arg_call.neighbors = <<"STOP", "STOP", "Done">>
    /\ arg_call.retro_args = [retro_gpt_retrieved_length |-> 2, retro_num_neighbors |-> 2,
                              ft_neighbours |-> 1, reuse_top |-> FALSE]
    /\ ret.value = <<<<3, 4>>, <<2, eos_id>>>>

Constructed == ret.op = "__init__"

\* C15: constructing a strategy on a model in training mode completes without an
\* error, with eval() called on the model, which is in evaluation mode afterwards;
\* constructing one on a model in evaluation mode calls eval() not at all.
C15_TrainingModelForcedToEval ==
    Constructed =>
        /\ ~ret.raised
        /\ ~training
        /\ ret.was_training => ret.eval_calls = 1
        /\ ~ret.was_training => ret.eval_calls = 0

C15_Witness ==
    /\ Constructed
    /\ ret.was_training
    /\ ret.eval_calls = 1
    /\ ~training
    /\ variant = "retro"

BatchTokenized == ret.op = "tokenize_batch" /\ ~ret.raised

\* C16: for every batch of prompts, all rows of the token grid tokenize_batch returns
\* have the same length, and entry i of the context lengths it returns is the length of
\* prompt i as tokenized (the bos id included when add_BOS is set) before padding, and is
\* at most the length of the padded rows.
C16_RowsEqualAndLengthsUnpadded ==
    BatchTokenized =>
        LET grid == ret.value.context_tokens_tensor
            lengths == ret.value.context_length_tensor
            n == Len(arg_call.sentences)
        IN  /\ Len(grid) = n /\ Len(lengths) = n
            /\ \A i, k \in 1..n : Len(grid[i]) = Len(grid[k])
            /\ \A i \in 1..n :
                   /\ lengths[i] = Len(text_to_ids(tokenizer, arg_call.sentences[i]))
                                       + (IF arg_call.add_BOS THEN 1 ELSE 0)
                   /\ lengths[i] <= Len(grid[i])

C16_Witness ==
    /\ BatchTokenized
    /\ tokenizer = "tokA"
    /\ arg_call.sentences = <<"Done", "STOP!">>
    /\ arg_call.add_BOS
    /\ arg_call.max_len = MaxGenerate
    /\ ret.value.context_length_tensor = <<2, 4>>
    /\ Len(ret.value.context_tokens_tensor[1]) = 4 + MaxGenerate
    /\ Len(ret.value.context_tokens_tensor[2]) = 4 + MaxGenerate

(***************************************************************************)
(* Further properties of end_of_generation_condition                       *)
(***************************************************************************)
\* C18: a call of end_of_generation_condition with end_strings empty or exactly
\* ['<|endoftext|>'] calls neither text_to_ids nor ids_to_text of the tokenizer and
\* leaves the end-of-generation cache as it was; a cache never built stays unbuilt.
C18_FastPathTouchesNothing ==
    [][(/\ ret'.op = "end_of_generation_condition"
        /\ arg_end_strings \in {<<>>, <<END_OF_SEQ>>}) =>
           /\ ret'.text_to_ids_calls = 0
           /\ ret'.ids_to_text_calls = 0
           /\ cache' = cache
           /\ cache = NoCache => cache' = NoCache]_vars

C18_Witness ==
    /\ Called
    /\ arg_end_strings = <<END_OF_SEQ>>
    /\ cache = NoCache
    /\ ret.text_to_ids_calls = 0
    /\ ret.ids_to_text_calls = 0

\* the ids the end strings of the current call stand for: the call's eod_id for
\* '<|endoftext|>', and for any other end string the single token the probe finds
SingleTokensOfCall ==
    {IF s = END_OF_SEQ THEN arg_eod_id ELSE ProbeToken(tokenizer, s) :
        s \in {e \in Range(arg_end_strings) :
                  e = END_OF_SEQ \/ ProbeFindsToken(tokenizer, e)}}

\* C19: in every general-path call the resolved end_tokens are the eod_id of that call
\* together with the single-token ids of that call's end strings, '<|endoftext|>'
\* contributing exactly the call's eod_id, whatever eod_id earlier calls on the same
\* tokenizer object passed.
C19_EndTokensOfThisCall ==
    General => ret.end_tokens = {arg_eod_id} \cup SingleTokensOfCall

\* the end strings a cache maps to a token, and those it holds for the string check
TokenStrings(c) == DOMAIN c.end_string_to_token

CheckStrings(c) == c.end_strings_to_check

\* C20: after every call no end string is both a key of the cache's
\* end_string_to_token map and a member of its end_strings_to_check set; and across a
\* call under the tokenizer object the cache was built for, every key of the map is
\* still a key of the map and every member of the set is still a member of the set.
C20_CacheSetsDisjointAndGrowOnly ==
    [][/\ TokenStrings(cache') \cap CheckStrings(cache') = {}
       /\ (cache # NoCache /\ cache.tokenizer = tokenizer /\ tokenizer' = tokenizer) =>
              /\ cache' # NoCache
              /\ cache'.tokenizer = tokenizer
              /\ TokenStrings(cache) \subseteq TokenStrings(cache')
              /\ CheckStrings(cache) \subseteq CheckStrings(cache')]_vars

C20_Witness ==
    /\ Called
    /\ ret.repeat
    /\ cache # NoCache
    /\ cache.tokenizer = tokenizer
    /\ tokenizer = "tokA"
    /\ "Done" \in TokenStrings(cache)
    /\ "STOP" \in CheckStrings(cache)
    /\ arg_end_strings = <<"STOP", "Done">>

(***************************************************************************)
(* Properties of clip_max_len                                              *)
(***************************************************************************)
Clipped == ret.op = "clip_max_len" /\ ~ret.raised

Min(a, b) == IF a < b THEN a ELSE b

\* the encoder_seq_length the variant reads: the frozen model's for the prompt-tuned
\* variant, the model's own for the others
SeqLengthRead ==
    IF variant = "prompt" THEN frozen_cfg.encoder_seq_length ELSE cfg.encoder_seq_length

\* C21: clip_max_len never returns more than maxlen; the multimodal and prompt-tuned
\* variants always return min(maxlen, encoder_seq_length + 1); the plain decoder and
\* retrieval variants return min(maxlen, encoder_seq_length + 1) when
\* position_embedding_type is 'learned_absolute' or unset, and maxlen unchanged for any
\* other position embedding type.
C21_ClipsToSeqLengthPlusOne ==
    Clipped =>
        LET maxlen == arg_call.maxlen
            clipped == Min(maxlen, SeqLengthRead + 1)
            learned == \/ "position_embedding_type" \notin DOMAIN cfg
                       \/ cfg.position_embedding_type = "learned_absolute"
        IN  /\ ret.value <= maxlen
            /\ variant \in {"neva", "prompt"} => ret.value = clipped
            /\ (variant \in {"gpt", "retro"} /\ learned) => ret.value = clipped
            /\ (variant \in {"gpt", "retro"} /\ ~learned) => ret.value = maxlen

C21_Witness ==
    /\ Clipped
    /\ variant = "retro"
    /\ "position_embedding_type" \notin DOMAIN cfg
    /\ cfg.encoder_seq_length = 2
    /\ arg_call.maxlen = 5
    /\ ret.value = 3

(***************************************************************************)
(* Further properties of post_process                                      *)
(***************************************************************************)
\* C22: the prompt-tuned post_process leaves every column of tokens at index
\* >= context_length (counted from 0) as it was, and with pseudo_token_ids_start None it
\* leaves tokens and new_tokens as a whole as they were.
C22_PostProcessFrame ==
    (PostProcessed /\ variant = "prompt") =>
        /\ DOMAIN arg_tokens = DOMAIN ret.tokens
        /\ \A b \in BatchIdx :
               /\ Len(arg_tokens[b]) = Len(ret.tokens[b])
               /\ \A j \in (arg_context_length + 1)..Len(ret.tokens[b]) :
                      arg_tokens[b][j] = ret.tokens[b][j]
        /\ pseudo_token_ids_start = NoneValue =>
               /\ arg_tokens = ret.tokens
               /\ arg_new_tokens = ret.new_tokens

C22_Witness ==
    /\ PostProcessed
    /\ variant = "prompt"
    /\ pseudo_token_ids_start # NoneValue
    /\ arg_context_length = 1
    /\ ret.tokens[2] = <<42, 50005, 50000>>
    /\ arg_tokens[2] = <<42, 50005, 50000>>
    /\ ret.tokens[1] = <<50000, 42, 50005>>
    /\ arg_tokens[1] = <<unk_id, 42, 50005>>

====
